---- MODULE Spec2Model ----
(***************************************************************************)
(* A model of the ML recommendation service (ml-service): the latent       *)
(* factor recommenders of models/collaborative_filtering.py and the A/B    *)
(* testing framework of models/hybrid_recommender.py.                      *)
(*                                                                         *)
(* Identifiers are opaque strings in the program; the only thing the code  *)
(* does with them is compare and sort them, so they are modelled by        *)
(* integers with their usual order.  Floating point scores are modelled in *)
(* fixed point, in units of 1/ScoreScale.                                  *)
(***************************************************************************)
EXTENDS Integers, Sequences, FiniteSets, TLC

\* None, for a field that holds a matrix or an estimator: no rows.
None == <<>>

\* The outcome of a call: the value returned, or the exception raised.
Returned(v) == [raised |-> FALSE, value |-> v]
Error == [raised |-> TRUE, value |-> <<>>]

(***************************************************************************)
(* Bounds of the model.                                                    *)
(***************************************************************************)
\* Longest batch of transactions handed to fit.
MaxBatch == 3
\* Longest batch handed to create_interaction_matrix alone.
MaxMatrixBatch == 2
\* Number of successful training runs of one model object.
MaxFits == 1
\* Largest n_recommendations asked of predict.
MaxN == 3

\* Ids that occur in training batches, and one more of each that never does.
UserIds == {1, 2}
ItemIds == {1, 2, 3}
PredictUserIds == UserIds \cup {9}
Ratings == {1, 2}

(***************************************************************************)
(* Helpers.                                                                *)
(***************************************************************************)
Min2(a, b) == IF a <= b THEN a ELSE b

MinOf(S) == CHOOSE x \in S : \A y \in S : x <= y

SeqsUpTo(S, n) == UNION {[1..k -> S] : k \in 0..n}

Range(f) == {f[x] : x \in DOMAIN f}

EmptyMap == <<>>

\* sorted(set(...)): the elements of S in ascending order.
RECURSIVE Sorted(_)
Sorted(S) == IF S = {} THEN <<>>
             ELSE LET m == MinOf(S) IN <<m>> \o Sorted(S \ {m})

\* {x: idx for idx, x in enumerate(seq)}: indices start at 0, and of the
\* indices of an x that occurs more than once the last one stays.
Enumerate(seq) ==
    [x \in Range(seq) |->
        (CHOOSE i \in DOMAIN seq :
            seq[i] = x /\ \A j \in DOMAIN seq : seq[j] = x => j <= i) - 1]

\* {idx: x for x, idx in id_map.items()}
Reverse(id_map) ==
    [idx \in Range(id_map) |-> CHOOSE x \in DOMAIN id_map : id_map[x] = idx]

\* transaction.get('rating', 1.0)
Rating(transaction) ==
    IF "rating" \in DOMAIN transaction THEN transaction.rating ELSE 1

(***************************************************************************)
(* State.                                                                  *)
(***************************************************************************)
VARIABLES
    \* --- one factor recommender object (SVDRecommender or NMFRecommender)
    kind,               \* "svd" or "nmf": the class of the object
    user_id_map,        \* self.user_id_map: user id -> row index
    item_id_map,        \* self.item_id_map: item id -> column index
    user_idx_map,       \* self.user_idx_map: row index -> user id
    item_idx_map,       \* self.item_idx_map: column index -> item id
    model,              \* self.model: None, or <<n_components>> of the estimator
    user_factors,       \* self.user_factors / self.user_features: None or rows of vectors
    item_factors,       \* self.item_factors / self.item_features: None or rows of vectors
    interaction_matrix, \* the matrix a direct call of create_interaction_matrix
                        \* returned (inside fit it is a local, dropped on return)
    \* --- the request being served
    pc,                 \* "idle": no request; "done": a handler has run, reply pending
    call,               \* the handler that ran and its arguments
    result,             \* what it returned, or Error when it raised
    \* --- history
    n_fits,             \* training runs completed without error
    before,             \* the object's fields when the last fit was entered
    \* --- fit and predict running in two threads of the service
    trainer,            \* the thread in fit: its line and its locals
    reader,             \* the thread in predict: its line and its locals
    written_by,         \* history: the training run that wrote each field last
    \* --- the A/B testing framework object and the process it lives in
    variant_stats,      \* self.variant_stats: variant -> counter name -> count
    str_hash,           \* hash() of the str of a user id, in this process
    assigned,           \* history: for each user id, the variants that calls of
                        \* assign_variant on its own have returned in this
                        \* process, in call order, each with the number of
                        \* record_* calls made before it
    assigned_ever,      \* history: the same, over all processes so far
    restarts,           \* history: how often the service has been restarted
    recorded,           \* history: the record_* calls completed, per variant
                        \* and counter
    workers,            \* the threads running record_* calls: line and locals
    \* --- the models the hybrid recommender and the API routes hold
    svd_model,          \* the fields of svd_model that predict reads
    nmf_model,          \* the fields of nmf_model that predict reads
    tfidf_model,        \* the fields of tfidf_model that predict reads
    served              \* history: the recommendation lists served to callers,
                        \* per variant that produced them

cfFields == <<user_id_map, item_id_map, user_idx_map, item_idx_map,
              model, user_factors, item_factors>>

threadVars == <<trainer, reader, written_by>>

hybridVars == <<svd_model, nmf_model, tfidf_model, served>>

abVars == <<variant_stats, str_hash, assigned, assigned_ever, restarts, recorded,
           workers>>

vars == <<kind, user_id_map, item_id_map, user_idx_map, item_idx_map, model,
          user_factors, item_factors, interaction_matrix, pc, call, result,
          n_fits, before, threadVars, hybridVars, abVars>>

(***************************************************************************)
(* Configuration (config.py).                                              *)
(***************************************************************************)
SVD_N_COMPONENTS == 50
NMF_N_COMPONENTS == 30

n_components == IF kind = "svd" THEN SVD_N_COMPONENTS ELSE NMF_N_COMPONENTS

(***************************************************************************)
(* create_interaction_matrix.                                              *)
(***************************************************************************)
\* csr_matrix((data, (rows, cols)), shape): the entries are given in
\* coordinate form, and entries with the same coordinates are added up.
RECURSIVE CsrCell(_, _, _, _, _)
CsrCell(data, rows, cols, r, c) ==
    IF data = <<>> THEN 0
    ELSE (IF Head(rows) = r /\ Head(cols) = c THEN Head(data) ELSE 0)
         + CsrCell(Tail(data), Tail(rows), Tail(cols), r, c)

csr_matrix(data, rows, cols, shape) ==
    [cell \in (0..(shape[1] - 1)) \X (0..(shape[2] - 1)) |->
        CsrCell(data, rows, cols, cell[1], cell[2])]

\* The maps the method stores in the object, and the matrix it returns.
create_interaction_matrix(transactions) ==
    LET unique_users == Sorted({t.user_id : t \in Range(transactions)})
        unique_items == Sorted({t.book_id : t \in Range(transactions)})
        uid_map == Enumerate(unique_users)
        iid_map == Enumerate(unique_items)
        n_users == Len(unique_users)
        n_items == Len(unique_items)
        data == [k \in DOMAIN transactions |-> Rating(transactions[k])]
        rows == [k \in DOMAIN transactions |-> uid_map[transactions[k].user_id]]
        cols == [k \in DOMAIN transactions |-> iid_map[transactions[k].book_id]]
    IN  [user_id_map  |-> uid_map,
         item_id_map  |-> iid_map,
         user_idx_map |-> Reverse(uid_map),
         item_idx_map |-> Reverse(iid_map),
         shape        |-> <<n_users, n_items>>,
         matrix       |-> csr_matrix(data, rows, cols, <<n_users, n_items>>)]

(***************************************************************************)
(* predict.                                                                *)
(***************************************************************************)
\* Scores are floats in the program; here they are integers in units of
\* 1/ScoreScale.
ScoreScale == 100

RECURSIVE Dot(_, _)
Dot(u, v) == IF u = <<>> THEN 0 ELSE Head(u) * Head(v) + Dot(Tail(u), Tail(v))

ISqrt(x) == CHOOSE r \in 0..x : r * r <= x /\ x < (r + 1) * (r + 1)

\* sklearn's cosine_similarity of two vectors: the dot product of the two
\* normalised vectors, a vector of norm 0 being left as it is.
cosine_similarity(u, v) ==
    LET d  == Dot(u, v)
        nu == Dot(u, u)
        nv == Dot(v, v)
    IN  IF nu = 0 \/ nv = 0 \/ d = 0 THEN 0
        ELSE (IF d > 0 THEN 1 ELSE -1)
             * ISqrt((ScoreScale * ScoreScale * d * d) \div (nu * nv))

\* The loop of predict: (item_id, score) for every column in index order,
\* the excluded ids left out.
RECURSIVE Candidates(_, _, _, _)
Candidates(scores, idx_map, exclude_items, item_idx) ==
    IF item_idx >= Len(scores) THEN <<>>
    ELSE LET item_id == idx_map[item_idx]
             rest    == Candidates(scores, idx_map, exclude_items, item_idx + 1)
         IN  IF exclude_items # {} /\ item_id \in exclude_items
             THEN rest
             ELSE <<<<item_id, scores[item_idx + 1]>>>> \o rest

\* A sort that is not stable: an entry goes in front of the entries of equal
\* score already placed.
RECURSIVE InsertByScoreUnstable(_, _)
InsertByScoreUnstable(x, sorted) ==
    IF sorted = <<>> THEN <<x>>
    ELSE IF Head(sorted)[2] > x[2]
         THEN <<Head(sorted)>> \o InsertByScoreUnstable(x, Tail(sorted))
         ELSE <<x>> \o sorted

\* list.sort(key=score, reverse=True): a stable sort, so entries of equal
\* score keep the order they had.
RECURSIVE InsertByScore(_, _)
InsertByScore(x, sorted) ==
    IF sorted = <<>> THEN <<x>>
    ELSE IF Head(sorted)[2] >= x[2]
         THEN <<Head(sorted)>> \o InsertByScore(x, Tail(sorted))
         ELSE <<x>> \o sorted

RECURSIVE SortPrefix(_, _)
SortPrefix(recs, k) ==
    IF k = 0 THEN <<>> ELSE InsertByScore(recs[k], SortPrefix(recs, k - 1))

SortByScore(recs) == SortPrefix(recs, Len(recs))

\* A slice that is one entry too long: recommendations[:n + 1]
TakeOneMore(recs, n) == SubSeq(recs, 1, Min2(n + 1, Len(recs)))

\* recommendations[:n]
Take(recs, n) ==
    IF n >= 0 THEN SubSeq(recs, 1, Min2(n, Len(recs)))
    ELSE SubSeq(recs, 1, Len(recs) + n)

\* predict on the given values of the object's fields.  Error stands for
\* the exception raised by indexing None, by an index that is out of range,
\* by vectors of different lengths, or by an index missing from idx_map.
PredictOn(uid_map, ufactors, ifactors, idx_map, user_id, n, exclude_items) ==
    IF user_id \notin DOMAIN uid_map THEN Returned(<<>>)
    ELSE LET user_idx == uid_map[user_id]
         IN  IF \/ ufactors = None
                \/ ifactors = None
             THEN Error
             ELSE IF \/ user_idx \notin DOMAIN ufactors
                     \/ \E i \in DOMAIN ifactors :
                            Len(ifactors[i]) # Len(ufactors[user_idx])
                     \/ \E i \in DOMAIN ifactors : i \notin DOMAIN idx_map
             THEN Error
             ELSE LET user_vector == ufactors[user_idx]
                      n_items == Cardinality(DOMAIN ifactors)
                      scores == [j \in 1..n_items |->
                                    cosine_similarity(user_vector, ifactors[j - 1])]
                  IN  Returned(Take(SortByScore(
                          Candidates(scores, idx_map, exclude_items, 0)), n))

predict(user_id, n, exclude_items) ==
    PredictOn(user_id_map, user_factors, item_factors, item_idx_map,
              user_id, n, exclude_items)

(***************************************************************************)
(* fit.                                                                    *)
(***************************************************************************)
\* min(self.n_components, min(interaction_matrix.shape) - 1)
ClampedRank(k, shape) == Min2(k, Min2(shape[1], shape[2]) - 1)

\* The decomposition (TruncatedSVD, NMF) is library code.  It rejects a
\* rank below 1; otherwise it returns one vector of length rank per user and
\* per item.  What the vectors hold is left open: any values of the set
\* below, which has both signs for SVD and is non-negative for NMF.
FactorValues == IF kind = "svd" THEN {-1, 1} ELSE {0, 1}

FactorMatrices(n_rows, rank) == [0..(n_rows - 1) -> [1..rank -> FactorValues]]

Fields == [user_id_map  |-> user_id_map,
           item_id_map  |-> item_id_map,
           user_idx_map |-> user_idx_map,
           item_idx_map |-> item_idx_map,
           user_factors |-> user_factors,
           item_factors |-> item_factors]

\* fit(transactions), as one step.  The matrix goes to the decomposition and
\* is not kept.
Fit(transactions) ==
    /\ pc = "idle"
    /\ LET m    == create_interaction_matrix(transactions)
           rank == ClampedRank(n_components, m.shape)
       IN  /\ user_id_map' = m.user_id_map
           /\ item_id_map' = m.item_id_map
           /\ user_idx_map' = m.user_idx_map
           /\ item_idx_map' = m.item_idx_map
           /\ model' = <<rank>>
           /\ IF rank < 1
              THEN /\ result' = Error
                   /\ UNCHANGED <<user_factors, item_factors, n_fits>>
              ELSE /\ n_fits < MaxFits
                   /\ \E uf \in FactorMatrices(m.shape[1], rank),
                         itf \in FactorMatrices(m.shape[2], rank) :
                          /\ user_factors' = uf
                          /\ item_factors' = itf
                   /\ n_fits' = n_fits + 1
                   /\ result' = Returned(<<>>)
    /\ pc' = "done"
    /\ call' = [op |-> "fit"]
    /\ before' = Fields
    /\ UNCHANGED <<kind, interaction_matrix, threadVars, hybridVars, abVars>>

\* predict(user_id, n_recommendations, exclude_items), as one step.
Predict(user_id, n, exclude_items) ==
    /\ pc = "idle"
    /\ pc' = "done"
    /\ call' = [op |-> "predict", user_id |-> user_id, n |-> n,
                exclude_items |-> exclude_items]
    /\ result' = predict(user_id, n, exclude_items)
    /\ before' = None
    /\ UNCHANGED <<kind, cfFields, interaction_matrix, n_fits, threadVars, hybridVars, abVars>>

\* The caller takes the reply.
Reply ==
    /\ pc = "done"
    /\ pc' = "idle"
    /\ call' = [op |-> "none"]
    /\ result' = Returned(<<>>)
    /\ before' = None
    /\ UNCHANGED <<kind, cfFields, interaction_matrix, n_fits, threadVars, hybridVars, abVars>>

\* Transactions as train_models hands them to fit: no 'rating' key.
Transactions == [user_id : UserIds, book_id : ItemIds]

\* The batches fit is tried on.  fit reads its batch only through
\* create_interaction_matrix, which takes the sets of ids and adds up the
\* entries of a cell, so the order of a batch makes no difference to fit:
\* one batch stands for all its permutations.
InBatchOrder(s, t) ==
    \/ s.user_id < t.user_id
    \/ s.user_id = t.user_id /\ s.book_id <= t.book_id

BatchesUpTo(n) ==
    {b \in SeqsUpTo(Transactions, n) :
        \A i \in 1..(Len(b) - 1) : InBatchOrder(b[i], b[i + 1])}

TrainingBatches == BatchesUpTo(MaxBatch)

TrainerIdle(run, completed) ==
    [pc |-> "idle", m |-> <<>>, rank |-> 0, components |-> None,
     run |-> run, completed |-> completed]

ReaderIdle ==
    [pc |-> "idle", user_id |-> 0, n |-> 0, exclude_items |-> {},
     user_idx |-> 0, user_vector |-> <<>>, scores |-> <<>>,
     result |-> Returned(<<>>), had_model |-> FALSE, runs |-> {}]

(***************************************************************************)
(* ABTestingFramework (hybrid_recommender.py).                             *)
(***************************************************************************)
\* self.variants as HybridRecommender constructs the framework: no list is
\* passed, so the default of __init__ applies.
variants == <<"svd", "nmf", "tfidf", "hybrid">>

Counters == {"impressions", "clicks", "conversions"}

\* self.variant_stats after __init__.
NoStats == [variant \in Range(variants) |-> [counter \in Counters |-> 0]]

\* hash() of a str is salted with a value drawn when the interpreter starts:
\* within one process it is a function of the string, and processes differ.
\* The values are signed and exceed the length of the variant list.
HashValues == {-3, -2, 3, 4}

StrHashes == [UserIds -> HashValues]

RECURSIVE SumOver(_, _)
SumOver(f, S) ==
    IF S = {} THEN 0
    ELSE LET x == CHOOSE y \in S : TRUE IN f[x] + SumOver(f, S \ {x})

\* The number of record_* calls counted in stats.
Calls(stats) ==
    SumOver([variant \in DOMAIN stats |-> SumOver(stats[variant], Counters)],
            DOMAIN stats)

\* An assignment that balances load: the variant shifts with the traffic
\* recorded so far.
assign_by_traffic(user_id) ==
    LET hash_value == str_hash[user_id] + Calls(variant_stats)
        variant_idx == hash_value % Len(variants)
    IN  variants[variant_idx + 1]

\* variants[variant_idx] of a 0-based list; % gives a result in
\* 0..len-1 for a negative hash value too.
assign_variant(user_id) ==
    LET hash_value == str_hash[user_id]
        variant_idx == hash_value % Len(variants)
    IN  variants[variant_idx + 1]

NumThreads == 3

Threads == 1..NumThreads

WorkerIdle == [pc |-> "idle", variant |-> "", counter |-> "", loaded |-> 0]

\* The framework after __init__, with no call on it in progress.
FrameworkInit ==
    /\ variant_stats = NoStats
    /\ assigned = [user_id \in UserIds |-> <<>>]
    /\ assigned_ever = [user_id \in UserIds |-> {}]
    /\ restarts = 0
    /\ recorded = NoStats
    /\ workers = [t \in Threads |-> WorkerIdle]

(***************************************************************************)
(* The three models app.py constructs and hands to HybridRecommender.      *)
(***************************************************************************)
\* SVDRecommender / NMFRecommender after __init__.
FactorModelInit ==
    [user_id_map |-> EmptyMap, item_idx_map |-> EmptyMap,
     user_factors |-> None, item_factors |-> None]

\* TFIDFRecommender after __init__.
TfidfModelInit ==
    [book_id_map |-> EmptyMap, book_idx_map |-> EmptyMap, vectorizer |-> None,
     tfidf_matrix |-> None]

NoneServed == [variant \in Range(variants) |-> 0]

ModelsInit ==
    /\ svd_model = FactorModelInit
    /\ nmf_model = FactorModelInit
    /\ tfidf_model = TfidfModelInit
    /\ served = NoneServed

\* The recommender object after __init__ (no model trained), with no call
\* in progress.
RecommenderInit ==
    /\ trainer = TrainerIdle(0, 0)
    /\ reader = ReaderIdle
    /\ written_by = [user_id_map |-> 0, item_id_map |-> 0, user_idx_map |-> 0,
                     item_idx_map |-> 0, user_factors |-> 0, item_factors |-> 0]
    /\ user_id_map = EmptyMap
    /\ item_id_map = EmptyMap
    /\ user_idx_map = EmptyMap
    /\ item_idx_map = EmptyMap
    /\ model = None
    /\ user_factors = None
    /\ item_factors = None
    /\ interaction_matrix = <<>>
    /\ pc = "idle"
    /\ call = [op |-> "none"]
    /\ result = Returned(<<>>)
    /\ n_fits = 0
    /\ before = None

CFInit ==
    /\ ModelsInit
    /\ kind \in {"svd", "nmf"}
    /\ RecommenderInit
    /\ FrameworkInit
    /\ str_hash = [user_id \in UserIds |-> 0]

CFNext ==
    \/ \E transactions \in TrainingBatches : Fit(transactions)
    \/ \E user_id \in PredictUserIds, n \in 0..MaxN, exclude_items \in SUBSET ItemIds :
           Predict(user_id, n, exclude_items)
    \/ Reply

SpecCF == CFInit /\ [][CFNext]_vars

(***************************************************************************)
(* create_interaction_matrix called on its own.                            *)
(***************************************************************************)
CreateInteractionMatrix(transactions) ==
    /\ pc = "idle"
    /\ LET m == create_interaction_matrix(transactions)
       IN  /\ user_id_map' = m.user_id_map
           /\ item_id_map' = m.item_id_map
           /\ user_idx_map' = m.user_idx_map
           /\ item_idx_map' = m.item_idx_map
           /\ interaction_matrix' = m.matrix
    /\ pc' = "done"
    /\ call' = [op |-> "create_interaction_matrix", transactions |-> transactions]
    /\ result' = Returned(<<>>)
    /\ UNCHANGED <<kind, model, user_factors, item_factors, n_fits, before, threadVars, hybridVars, abVars>>

\* Transactions with and without a 'rating' key.
RatedTransactions ==
    [user_id : UserIds, book_id : ItemIds, rating : Ratings] \cup Transactions

MatrixNext ==
    \E transactions \in SeqsUpTo(RatedTransactions, MaxMatrixBatch) :
        CreateInteractionMatrix(transactions)

SpecMatrix == CFInit /\ [][MatrixNext]_vars

(***************************************************************************)
(* Claims about the interaction matrix.                                    *)
(***************************************************************************)
\* The weight of the last transaction of the batch for (user_id, item_id).
LastWeight(transactions, user_id, item_id) ==
    LET at == {k \in DOMAIN transactions :
                  /\ transactions[k].user_id = user_id
                  /\ transactions[k].book_id = item_id}
    IN  IF at = {} THEN 0
        ELSE Rating(transactions[CHOOSE k \in at : \A j \in at : j <= k])

\* C1: after create_interaction_matrix on a batch, the cell of every
\* (user, item) pair holds the weight of the last transaction of that pair
\* in the batch (overwrite), not the sum of the weights.
C1_LastWeightWins ==
    (pc = "done" /\ call.op = "create_interaction_matrix") =>
        \A user_id \in DOMAIN user_id_map, item_id \in DOMAIN item_id_map :
            interaction_matrix[<<user_id_map[user_id], item_id_map[item_id]>>]
                = LastWeight(call.transactions, user_id, item_id)

(***************************************************************************)
(* Claims about fit and predict, one call at a time.                       *)
(***************************************************************************)
IsPredictReply == pc = "done" /\ call.op = "predict"

\* C4: a fit that raises on a model trained before leaves the identifier
\* maps and the factor matrices as they were when it was entered, so that
\* predict answers as before.
C4_FailedFitPreservesState ==
    (pc = "done" /\ call.op = "fit" /\ result.raised /\ before.user_factors # None) =>
        /\ Fields = before
        /\ \A user_id \in PredictUserIds, n \in 0..MaxN, exclude_items \in SUBSET ItemIds :
               predict(user_id, n, exclude_items)
                   = PredictOn(before.user_id_map, before.user_factors,
                               before.item_factors, before.item_idx_map,
                               user_id, n, exclude_items)

\* C7: a list returned by predict has at most n entries, its item ids are
\* pairwise distinct ids of the item index, and none is in exclude_items.
C7_PredictBounded ==
    (IsPredictReply /\ ~result.raised) =>
        LET recs == result.value
        IN  /\ Len(recs) <= call.n
            /\ \A i, j \in DOMAIN recs : i # j => recs[i][1] # recs[j][1]
            /\ \A i \in DOMAIN recs :
                   /\ recs[i][1] \in DOMAIN item_id_map
                   /\ recs[i][1] \notin call.exclude_items

\* C7 witness: a trained model, a user of the index, a non-empty exclude
\* set, and a list cut to n entries although more candidates were left.
C7_Witness ==
    /\ IsPredictReply
    /\ ~result.raised
    /\ user_factors # None
    /\ call.user_id \in DOMAIN user_id_map
    /\ call.exclude_items \cap DOMAIN item_id_map # {}
    /\ call.n >= 1
    /\ Len(result.value) = call.n
    /\ Cardinality(DOMAIN item_id_map \ call.exclude_items) > call.n

\* C8 as stated: the returned list is strictly descending by score.
C8_StrictlyDescending ==
    (IsPredictReply /\ ~result.raised) =>
        \A i \in 1..(Len(result.value) - 1) :
            result.value[i][2] > result.value[i + 1][2]

\* C8 as amended: the returned list is descending by score with ties
\* allowed, and adjacent entries of equal score are in item index order.
C8_DescendingTiesByIndex ==
    (IsPredictReply /\ ~result.raised) =>
        \A i \in 1..(Len(result.value) - 1) :
            LET a == result.value[i]
                b == result.value[i + 1]
            IN  \/ a[2] > b[2]
                \/ a[2] = b[2] /\ item_id_map[a[1]] < item_id_map[b[1]]

\* C8 witness: a returned list with a tie and with a strict drop.
C8_Witness ==
    /\ IsPredictReply
    /\ ~result.raised
    /\ user_factors # None
    /\ Len(result.value) = 3
    /\ result.value[1][2] = result.value[2][2]
    /\ result.value[2][2] > result.value[3][2]

\* C9: predict returns the empty list, and does not raise, when the model
\* has never been trained or the user id is not in its user index.
C9_ColdStartEmpty ==
    (IsPredictReply /\ (n_fits = 0 \/ call.user_id \notin DOMAIN user_id_map)) =>
        result = Returned(<<>>)

(***************************************************************************)
(* fit and predict of one model object in two threads.  The service runs   *)
(* its handlers in threads, and neither method takes a lock: fit assigns   *)
(* the fields of the object one statement at a time, and predict reads     *)
(* them one statement at a time.                                           *)
(***************************************************************************)
\* Training runs begun by the trainer thread, and the longest batch of one.
MaxTrainings == 2
MaxThreadBatch == 2

seqVars == <<pc, call, result, n_fits, before, interaction_matrix, kind, abVars,
            hybridVars>>

\* fit is entered: lines 41-42 compute the locals.
FitEnter(transactions) ==
    /\ trainer.pc = "idle"
    /\ trainer.run < MaxTrainings
    /\ LET m == create_interaction_matrix(transactions)
       IN  trainer' = [trainer EXCEPT !.pc = "l44", !.m = m,
                                      !.rank = ClampedRank(n_components, m.shape),
                                      !.run = trainer.run + 1]
    /\ UNCHANGED <<cfFields, reader, written_by, seqVars>>

\* Lines 44, 45, 48, 49: the four maps, one assignment each.
FitL44 ==
    /\ trainer.pc = "l44"
    /\ user_id_map' = trainer.m.user_id_map
    /\ written_by' = [written_by EXCEPT !.user_id_map = trainer.run]
    /\ trainer' = [trainer EXCEPT !.pc = "l45"]
    /\ UNCHANGED <<item_id_map, user_idx_map, item_idx_map, model, user_factors,
                   item_factors, reader, seqVars>>

FitL45 ==
    /\ trainer.pc = "l45"
    /\ item_id_map' = trainer.m.item_id_map
    /\ written_by' = [written_by EXCEPT !.item_id_map = trainer.run]
    /\ trainer' = [trainer EXCEPT !.pc = "l48"]
    /\ UNCHANGED <<user_id_map, user_idx_map, item_idx_map, model, user_factors,
                   item_factors, reader, seqVars>>

FitL48 ==
    /\ trainer.pc = "l48"
    /\ user_idx_map' = trainer.m.user_idx_map
    /\ written_by' = [written_by EXCEPT !.user_idx_map = trainer.run]
    /\ trainer' = [trainer EXCEPT !.pc = "l49"]
    /\ UNCHANGED <<user_id_map, item_id_map, item_idx_map, model, user_factors,
                   item_factors, reader, seqVars>>

FitL49 ==
    /\ trainer.pc = "l49"
    /\ item_idx_map' = trainer.m.item_idx_map
    /\ written_by' = [written_by EXCEPT !.item_idx_map = trainer.run]
    /\ trainer' = [trainer EXCEPT !.pc = "l86"]
    /\ UNCHANGED <<user_id_map, item_id_map, user_idx_map, model, user_factors,
                   item_factors, reader, seqVars>>

\* Line 86: the estimator is built with the clamped rank.
FitL86 ==
    /\ trainer.pc = "l86"
    /\ model' = <<trainer.rank>>
    /\ trainer' = [trainer EXCEPT !.pc = "l93"]
    /\ UNCHANGED <<user_id_map, item_id_map, user_idx_map, item_idx_map,
                   user_factors, item_factors, reader, written_by, seqVars>>

\* Line 93: fit_transform raises, or fits the estimator (its components_)
\* and returns the user factors, which are assigned.
FitL93 ==
    /\ trainer.pc = "l93"
    /\ IF trainer.rank < 1
       THEN /\ trainer' = TrainerIdle(trainer.run, trainer.completed)
            /\ UNCHANGED <<user_factors, written_by>>
       ELSE \E uf \in FactorMatrices(trainer.m.shape[1], trainer.rank),
               components \in FactorMatrices(trainer.m.shape[2], trainer.rank) :
                /\ user_factors' = uf
                /\ written_by' = [written_by EXCEPT !.user_factors = trainer.run]
                /\ trainer' = [trainer EXCEPT !.pc = "l96", !.components = components]
    /\ UNCHANGED <<user_id_map, item_id_map, user_idx_map, item_idx_map, model,
                   item_factors, reader, seqVars>>

\* Line 96: the item factors are assigned; fit returns.
FitL96 ==
    /\ trainer.pc = "l96"
    /\ item_factors' = trainer.components
    /\ written_by' = [written_by EXCEPT !.item_factors = trainer.run]
    /\ trainer' = TrainerIdle(trainer.run, trainer.completed + 1)
    /\ UNCHANGED <<user_id_map, item_id_map, user_idx_map, item_idx_map, model,
                   user_factors, reader, seqVars>>

\* predict is entered.
PredictEnter(user_id, n, exclude_items) ==
    /\ reader.pc = "idle"
    /\ reader' = [ReaderIdle EXCEPT !.pc = "l114", !.user_id = user_id, !.n = n,
                                    !.exclude_items = exclude_items,
                                    !.had_model = (trainer.completed > 0)]
    /\ UNCHANGED <<cfFields, trainer, written_by, seqVars>>

\* Lines 114-118: user_id_map is read.
PredictL114 ==
    /\ reader.pc = "l114"
    /\ LET runs == reader.runs \cup {written_by.user_id_map}
       IN  IF reader.user_id \notin DOMAIN user_id_map
           THEN reader' = [reader EXCEPT !.pc = "done", !.runs = runs,
                                         !.result = Returned(<<>>)]
           ELSE reader' = [reader EXCEPT !.pc = "l119", !.runs = runs,
                                         !.user_idx = user_id_map[reader.user_id]]
    /\ UNCHANGED <<cfFields, trainer, written_by, seqVars>>

\* Line 119: user_factors is read.
PredictL119 ==
    /\ reader.pc = "l119"
    /\ LET runs == reader.runs \cup {written_by.user_factors}
       IN  IF user_factors = None \/ reader.user_idx \notin DOMAIN user_factors
           THEN reader' = [reader EXCEPT !.pc = "done", !.runs = runs, !.result = Error]
           ELSE reader' = [reader EXCEPT !.pc = "l122", !.runs = runs,
                                         !.user_vector = user_factors[reader.user_idx]]
    /\ UNCHANGED <<cfFields, trainer, written_by, seqVars>>

\* Line 122: item_factors is read and the scores are computed.
PredictL122 ==
    /\ reader.pc = "l122"
    /\ LET runs == reader.runs \cup {written_by.item_factors}
       IN  IF \/ item_factors = None
              \/ \E i \in DOMAIN item_factors :
                     Len(item_factors[i]) # Len(reader.user_vector)
           THEN reader' = [reader EXCEPT !.pc = "done", !.runs = runs, !.result = Error]
           ELSE reader' =
                  [reader EXCEPT
                     !.pc = "l126", !.runs = runs,
                     !.scores = [j \in 1..Cardinality(DOMAIN item_factors) |->
                                   cosine_similarity(reader.user_vector,
                                                     item_factors[j - 1])]]
    /\ UNCHANGED <<cfFields, trainer, written_by, seqVars>>

\* Lines 125-137: the loop reads item_idx_map; the list is sorted and cut.
PredictL126 ==
    /\ reader.pc = "l126"
    /\ LET runs == reader.runs \cup {written_by.item_idx_map}
       IN  IF \E j \in DOMAIN reader.scores : (j - 1) \notin DOMAIN item_idx_map
           THEN reader' = [reader EXCEPT !.pc = "done", !.runs = runs, !.result = Error]
           ELSE reader' =
                  [reader EXCEPT
                     !.pc = "done", !.runs = runs,
                     !.result = Returned(Take(SortByScore(
                         Candidates(reader.scores, item_idx_map,
                                    reader.exclude_items, 0)), reader.n))]
    /\ UNCHANGED <<cfFields, trainer, written_by, seqVars>>

\* predict has returned or raised; the thread is free for the next call.
PredictReturn ==
    /\ reader.pc = "done"
    /\ reader' = ReaderIdle
    /\ UNCHANGED <<cfFields, trainer, written_by, seqVars>>

ThreadsNext ==
    \/ \E transactions \in BatchesUpTo(MaxThreadBatch) : FitEnter(transactions)
    \/ FitL44 \/ FitL45 \/ FitL48 \/ FitL49 \/ FitL86 \/ FitL93 \/ FitL96
    \/ \E user_id \in PredictUserIds : PredictEnter(user_id, MaxN, {})
    \/ PredictL114 \/ PredictL119 \/ PredictL122 \/ PredictL126 \/ PredictReturn

SpecThreads == CFInit /\ [][ThreadsNext]_vars

\* C3: a predict that runs on a model that has been trained reads the
\* identifier maps and the factor matrices of one single training run:
\* all of the previous run or all of the new one.
C3_PredictReadsOneRun ==
    (reader.pc = "done" /\ reader.had_model) => Cardinality(reader.runs) <= 1

(***************************************************************************)
(* Calls on the framework, one at a time.                                  *)
(***************************************************************************)
MaxRecords == 1
MaxAssigns == 2

Increment(stats, variant, counter) ==
    [stats EXCEPT ![variant][counter] = @ + 1]

\* A record_* on a variant_stats that creates the entry of a variant it
\* does not hold, as a defaultdict would.
RecordAnyVariant(op, variant, counter) ==
    /\ pc = "idle"
    /\ Calls(recorded) < MaxRecords
    /\ LET with_key(stats) ==
               IF variant \in DOMAIN stats THEN stats
               ELSE [v \in DOMAIN stats \cup {variant} |->
                        IF v = variant THEN [c \in Counters |-> 0] ELSE stats[v]]
       IN  /\ variant_stats' = Increment(with_key(variant_stats), variant, counter)
           /\ recorded' = Increment(with_key(recorded), variant, counter)
    /\ result' = Returned(None)
    /\ pc' = "done"
    /\ call' = [op |-> op, variant |-> variant]
    /\ UNCHANGED <<kind, cfFields, interaction_matrix, n_fits, before, threadVars, hybridVars,
                   str_hash, assigned, assigned_ever, restarts, workers>>

\* self.variant_stats[variant][counter] += 1; a variant that is not a key of
\* variant_stats raises KeyError before anything is written.
Record(op, variant, counter) ==
    /\ pc = "idle"
    /\ IF variant \in DOMAIN variant_stats
       THEN /\ Calls(recorded) < MaxRecords
            /\ variant_stats' = Increment(variant_stats, variant, counter)
            /\ recorded' = Increment(recorded, variant, counter)
            /\ result' = Returned(None)
       ELSE /\ result' = Error
            /\ UNCHANGED <<variant_stats, recorded>>
    /\ pc' = "done"
    /\ call' = [op |-> op, variant |-> variant]
    /\ UNCHANGED <<kind, cfFields, interaction_matrix, n_fits, before, threadVars, hybridVars,
                   str_hash, assigned, assigned_ever, restarts, workers>>

RecordImpression(variant) == Record("record_impression", variant, "impressions")

RecordClick(variant) == Record("record_click", variant, "clicks")

RecordConversion(variant) == Record("record_conversion", variant, "conversions")

AssignVariant(user_id) ==
    /\ pc = "idle"
    /\ SumOver([u \in UserIds |-> Len(assigned[u])], UserIds) < MaxAssigns
    /\ LET variant == assign_variant(user_id)
       IN  /\ result' = Returned(variant)
           /\ assigned' = [assigned EXCEPT ![user_id] =
                              Append(@, [variant |-> variant,
                                         after |-> Calls(recorded)])]
           /\ assigned_ever' = [assigned_ever EXCEPT ![user_id] = @ \cup {variant}]
    /\ pc' = "done"
    /\ call' = [op |-> "assign_variant", user_id |-> user_id]
    /\ UNCHANGED <<kind, cfFields, interaction_matrix, n_fits, before, threadVars, hybridVars,
                   variant_stats, str_hash, restarts, recorded, workers>>

\* A rate clicks / impressions is held as the pair <<clicks, impressions>>:
\* the quotient of two counters is a float that is equal for equal
\* fractions and ordered as the fractions are.
RateAtLeast(a, b) == a[1] * b[2] >= b[1] * a[2]

\* get_variant_performance(): per variant, in the order of variant_stats.
get_variant_performance ==
    [variant \in DOMAIN variant_stats |->
        LET stats == variant_stats[variant]
            impressions == IF stats.impressions = 0 THEN 1 ELSE stats.impressions
            clicks == stats.clicks
            conversions == stats.conversions
        IN  [impressions |-> impressions,
             clicks |-> clicks,
             conversions |-> conversions,
             ctr |-> <<clicks, impressions>>,
             conversion_rate |-> <<conversions, impressions>>]]

\* sorted(..., key=conversion_rate, reverse=True): stable, so items of equal
\* rate keep the order they had.
RECURSIVE InsertByRate(_, _)
InsertByRate(x, sorted) ==
    IF sorted = <<>> THEN <<x>>
    ELSE IF RateAtLeast(Head(sorted)[2].conversion_rate, x[2].conversion_rate)
         THEN <<Head(sorted)>> \o InsertByRate(x, Tail(sorted))
         ELSE <<x>> \o sorted

RECURSIVE SortedByRate(_, _)
SortedByRate(items, k) ==
    IF k = 0 THEN <<>> ELSE InsertByRate(items[k], SortedByRate(items, k - 1))

\* get_winning_variant(): performance.items() is in the order the variants
\* were declared, the order in which __init__ filled variant_stats.
get_winning_variant ==
    LET performance == get_variant_performance
        items == [i \in 1..Len(variants) |->
                     <<variants[i], performance[variants[i]]>>]
        sorted_variants == SortedByRate(items, Len(items))
    IN  IF sorted_variants # <<>> THEN sorted_variants[1][1] ELSE "hybrid"

GetVariantPerformance ==
    /\ pc = "idle"
    /\ pc' = "done"
    /\ call' = [op |-> "get_variant_performance"]
    /\ result' = Returned(get_variant_performance)
    /\ UNCHANGED <<kind, cfFields, interaction_matrix, n_fits, before, threadVars,
                   hybridVars, abVars>>

GetWinningVariant ==
    /\ pc = "idle"
    /\ pc' = "done"
    /\ call' = [op |-> "get_winning_variant"]
    /\ result' = Returned(get_winning_variant)
    /\ UNCHANGED <<kind, cfFields, interaction_matrix, n_fits, before, threadVars,
                   hybridVars, abVars>>

\* The variants a caller may name: the configured ones and one that is not.
VariantNames == Range(variants) \cup {"popular"}

ABInit ==
    /\ ModelsInit
    /\ kind = "svd"
    /\ RecommenderInit
    /\ FrameworkInit
    /\ str_hash \in StrHashes

ABNext ==
    \/ \E user_id \in UserIds : AssignVariant(user_id)
    \/ \E variant \in VariantNames : RecordImpression(variant)
    \/ \E variant \in VariantNames : RecordClick(variant)
    \/ \E variant \in VariantNames : RecordConversion(variant)
    \/ GetVariantPerformance
    \/ GetWinningVariant
    \/ Reply

SpecAB == ABInit /\ [][ABNext]_vars

(***************************************************************************)
(* The service process: it is started, serves assign_variant, and may be   *)
(* stopped and started again.                                              *)
(***************************************************************************)
MaxRestarts == 1

\* A new interpreter: a new hash salt, and every object constructed anew.
Restart ==
    /\ pc = "idle"
    /\ restarts < MaxRestarts
    /\ restarts' = restarts + 1
    /\ str_hash' \in StrHashes
    /\ variant_stats' = NoStats
    /\ recorded' = NoStats
    /\ assigned' = [user_id \in UserIds |-> <<>>]
    /\ workers' = [t \in Threads |-> WorkerIdle]
    /\ user_id_map' = EmptyMap
    /\ item_id_map' = EmptyMap
    /\ user_idx_map' = EmptyMap
    /\ item_idx_map' = EmptyMap
    /\ model' = None
    /\ user_factors' = None
    /\ item_factors' = None
    /\ interaction_matrix' = <<>>
    /\ n_fits' = 0
    /\ svd_model' = FactorModelInit
    /\ nmf_model' = FactorModelInit
    /\ tfidf_model' = TfidfModelInit
    /\ served' = NoneServed
    /\ UNCHANGED <<kind, pc, call, result, before, threadVars, assigned_ever>>

ProcessNext ==
    \/ \E user_id \in UserIds : AssignVariant(user_id)
    \/ Restart
    \/ Reply

SpecProcess == ABInit /\ [][ProcessNext]_vars

(***************************************************************************)
(* assign_variant.                                                         *)
(***************************************************************************)
\* C5: within one framework instance every call of assign_variant for a
\* user id returns the variant the first call returned, whatever record_*
\* calls come between, and that variant is in the configured list.
C5_AssignVariantIdempotent ==
    /\ \A user_id \in UserIds :
           \A i \in 1..Len(assigned[user_id]) :
               /\ assigned[user_id][i].variant = assigned[user_id][1].variant
               /\ assigned[user_id][i].variant \in Range(variants)
    /\ (pc = "done" /\ call.op = "assign_variant") =>
           /\ ~result.raised
           /\ result.value = assigned[call.user_id][1].variant

\* A second call for a user id has returned, with a record_* call made
\* since the first.
C5_Witness ==
    /\ pc = "done"
    /\ call.op = "assign_variant"
    /\ Len(assigned[call.user_id]) >= 2
    /\ assigned[call.user_id][1].after < assigned[call.user_id][2].after

\* C6: every process assigns a user id to the same variant: over all the
\* processes the service has run as, no user id has got two variants.
C6_SameVariantInEveryProcess ==
    \A user_id \in UserIds : Cardinality(assigned_ever[user_id]) <= 1

(***************************************************************************)
(* record_* called from several request threads at once.  The statement    *)
(*     self.variant_stats[variant][counter] += 1                           *)
(* reads the counter and then stores the sum; another thread may run       *)
(* between the two.  Each thread makes one call.                           *)
(***************************************************************************)
RecordEnter(t, variant, counter) ==
    /\ workers[t].pc = "idle"
    /\ workers' = [workers EXCEPT ![t] =
                      [pc |-> "load", variant |-> variant, counter |-> counter,
                       loaded |-> 0]]
    /\ UNCHANGED <<kind, cfFields, interaction_matrix, pc, call, result, n_fits,
                   before, threadVars, hybridVars, variant_stats, str_hash, assigned,
                   assigned_ever, restarts, recorded>>

RecordImpressionEnter(t, variant) == RecordEnter(t, variant, "impressions")

RecordClickEnter(t, variant) == RecordEnter(t, variant, "clicks")

RecordConversionEnter(t, variant) == RecordEnter(t, variant, "conversions")

\* The read of self.variant_stats[variant][counter].
RecordLoad(t) ==
    /\ workers[t].pc = "load"
    /\ workers' = [workers EXCEPT ![t].pc = "store",
                                  ![t].loaded =
                                      variant_stats[workers[t].variant][workers[t].counter]]
    /\ UNCHANGED <<kind, cfFields, interaction_matrix, pc, call, result, n_fits,
                   before, threadVars, hybridVars, variant_stats, str_hash, assigned,
                   assigned_ever, restarts, recorded>>

\* The store of the value read plus one, and the return.
RecordStore(t) ==
    /\ workers[t].pc = "store"
    /\ variant_stats' = [variant_stats EXCEPT
                            ![workers[t].variant][workers[t].counter] =
                                workers[t].loaded + 1]
    /\ recorded' = Increment(recorded, workers[t].variant, workers[t].counter)
    /\ workers' = [workers EXCEPT ![t].pc = "done"]
    /\ UNCHANGED <<kind, cfFields, interaction_matrix, pc, call, result, n_fits,
                   before, threadVars, hybridVars, str_hash, assigned, assigned_ever, restarts>>

CountersInit ==
    /\ ModelsInit
    /\ kind = "svd"
    /\ RecommenderInit
    /\ FrameworkInit
    /\ str_hash = [user_id \in UserIds |-> 0]

CountersNext ==
    \E t \in Threads :
        \/ \E variant \in Range(variants) : RecordImpressionEnter(t, variant)
        \/ \E variant \in Range(variants) : RecordClickEnter(t, variant)
        \/ \E variant \in Range(variants) : RecordConversionEnter(t, variant)
        \/ RecordLoad(t)
        \/ RecordStore(t)

SpecCounters == CountersInit /\ [][CountersNext]_vars

\* C2: when the concurrent record_* calls have all returned, every counter
\* is its initial value (zero) plus the number of calls made on it.
C2_NoLostUpdates ==
    (\A t \in Threads : workers[t].pc \in {"idle", "done"}) =>
        variant_stats = recorded

\* C10: a record_* call leaves its counter one higher than it found it and
\* every other counter as it found it, and no step lowers a counter.
C10_RecordIncrementsOneCounter ==
    [][/\ \A t \in Threads :
              (workers[t].pc = "store" /\ workers'[t].pc = "done") =>
                  variant_stats' = Increment(variant_stats, workers[t].variant,
                                             workers[t].counter)
       /\ \A variant \in Range(variants), counter \in Counters :
              variant_stats'[variant][counter] >= variant_stats[variant][counter]]_vars

(***************************************************************************)
(* TFIDFRecommender.predict (content_based.py).  The rows of tfidf_matrix  *)
(* are vectors of term weights; a row index counts from 0.                 *)
(***************************************************************************)
VecAdd(u, v) == [i \in 1..Len(u) |-> u[i] + v[i]]

RECURSIVE SumRows(_, _)
SumRows(matrix, indices) ==
    IF Len(indices) = 1 THEN matrix[indices[1]]
    ELSE VecAdd(matrix[Head(indices)], SumRows(matrix, Tail(indices)))

InList(x, list) == \E i \in 1..Len(list) : list[i] = x

\* The loop of predict that keeps the books of the history.
RECURSIVE TfidfCandidatesWithHistory(_, _, _, _, _)
TfidfCandidatesWithHistory(similarities, idx_map, user_history, exclude_items, idx) ==
    IF idx >= Len(similarities) THEN <<>>
    ELSE LET book_id == idx_map[idx]
             rest == TfidfCandidatesWithHistory(similarities, idx_map, user_history,
                                                exclude_items, idx + 1)
         IN  IF exclude_items # {} /\ book_id \in exclude_items THEN rest
             ELSE <<<<book_id, similarities[idx + 1]>>>> \o rest

\* The loop of predict: (book_id, score) for every row in index order, the
\* books of the history and the excluded ids left out.
RECURSIVE TfidfCandidates(_, _, _, _, _)
TfidfCandidates(similarities, idx_map, user_history, exclude_items, idx) ==
    IF idx >= Len(similarities) THEN <<>>
    ELSE LET book_id == idx_map[idx]
             rest == TfidfCandidates(similarities, idx_map, user_history,
                                     exclude_items, idx + 1)
         IN  IF InList(book_id, user_history) THEN rest
             ELSE IF exclude_items # {} /\ book_id \in exclude_items THEN rest
             ELSE <<<<book_id, similarities[idx + 1]>>>> \o rest

\* predict on the fields m of a TFIDFRecommender.  The user profile is the
\* mean of the history's rows; the cosine of the mean is the cosine of the
\* sum.  Error stands for the exception raised by indexing None or by an
\* index that is out of range or missing from book_idx_map.
TfidfPredictOn(m, user_history, n, exclude_items) ==
    IF user_history = <<>> THEN Returned(<<>>)
    ELSE LET known == SelectSeq(user_history,
                                LAMBDA book_id : book_id \in DOMAIN m.book_id_map)
             history_indices == [i \in 1..Len(known) |-> m.book_id_map[known[i]]]
         IN  IF history_indices = <<>> THEN Returned(<<>>)
             ELSE IF m.tfidf_matrix = None THEN Error
             ELSE IF \/ \E i \in 1..Len(history_indices) :
                            history_indices[i] \notin DOMAIN m.tfidf_matrix
                     \/ \E idx \in DOMAIN m.tfidf_matrix :
                            idx \notin DOMAIN m.book_idx_map
             THEN Error
             ELSE LET user_profile == SumRows(m.tfidf_matrix, history_indices)
                      n_rows == Cardinality(DOMAIN m.tfidf_matrix)
                      similarities ==
                          [j \in 1..n_rows |->
                              cosine_similarity(user_profile, m.tfidf_matrix[j - 1])]
                  IN  Returned(Take(SortByScore(
                          TfidfCandidates(similarities, m.book_idx_map,
                                          user_history, exclude_items, 0)), n))

\* predict on the fields m of an SVDRecommender or NMFRecommender.
FactorPredictOn(m, user_id, n, exclude_items) ==
    PredictOn(m.user_id_map, m.user_factors, m.item_factors, m.item_idx_map,
              user_id, n, exclude_items)

(***************************************************************************)
(* HybridRecommender.get_recommendations (hybrid_recommender.py).          *)
(***************************************************************************)
\* A weight w of self.weights is held as w * WeightScale; a blended score is
\* in units of 1 / (ScoreScale * WeightScale).
WeightScale == 100

\* Weights that give every model the same share.
EqualWeights == [svd |-> 30, nmf |-> 30, tfidf |-> 30, temporal |-> 10]

weights == [svd |-> 35, nmf |-> 30, tfidf |-> 25, temporal |-> 10]

ZeroScores == [svd |-> 0, nmf |-> 0, tfidf |-> 0]

\* One of the three loops over a model's list.  all_recommendations is a
\* dict: its entries, in the order their keys were first inserted.
RECURSIVE Surface(_, _, _)
Surface(all_recommendations, recs, name) ==
    IF recs = <<>> THEN all_recommendations
    ELSE LET item_id == Head(recs)[1]
             score == Head(recs)[2]
             at == {i \in 1..Len(all_recommendations) :
                       all_recommendations[i].item_id = item_id}
             next == IF at = {}
                     THEN Append(all_recommendations,
                                 [item_id |-> item_id,
                                  scores |-> [ZeroScores EXCEPT ![name] = score]])
                     ELSE [all_recommendations EXCEPT
                              ![CHOOSE i \in at : TRUE].scores[name] = score]
         IN  Surface(next, Tail(recs), name)

\* The weighted combination whatever the variant is.
WeightedScore(scores, variant) ==
    scores.svd * weights.svd + scores.nmf * weights.nmf
        + scores.tfidf * weights.tfidf

hybrid_score(scores, variant) ==
    IF variant = "hybrid"
    THEN scores.svd * weights.svd + scores.nmf * weights.nmf
             + scores.tfidf * weights.tfidf
    ELSE IF variant = "svd" THEN scores.svd * WeightScale
    ELSE IF variant = "nmf" THEN scores.nmf * WeightScale
    ELSE IF variant = "tfidf" THEN scores.tfidf * WeightScale
    ELSE scores.svd * WeightScale

algorithm(variant) ==
    IF variant \in {"hybrid", "svd", "nmf", "tfidf"} THEN variant ELSE "svd"

\* The entries of the dict taken last inserted first.
FinalRecommendationsReversed(all_recommendations, variant) ==
    [i \in 1..Len(all_recommendations) |->
        LET e == all_recommendations[Len(all_recommendations) + 1 - i]
        IN  <<e.item_id, hybrid_score(e.scores, variant), algorithm(variant)>>]

\* final_recommendations before the sort: one (item_id, hybrid_score,
\* algorithm) for every entry of the dict, in insertion order.
FinalRecommendations(all_recommendations, variant) ==
    [i \in 1..Len(all_recommendations) |->
        LET e == all_recommendations[i]
        IN  <<e.item_id, hybrid_score(e.scores, variant), algorithm(variant)>>]

\* The call on the current models and framework.  variant_arg is <<>> for
\* variant=None and <<name>> for a named variant.  raised: a predict raised,
\* or record_impression did (a variant that is no key of variant_stats).
\* The lists of the three models and the ranking before the slice are kept
\* beside the returned value.
get_recommendations(user_id, user_history, n_recommendations, exclude_items, variant_arg) ==
    LET variant == IF variant_arg = <<>> THEN assign_variant(user_id)
                   ELSE variant_arg[1]
        svd_recs == IF variant \in {"svd", "hybrid"}
                    THEN FactorPredictOn(svd_model, user_id,
                                         n_recommendations * 2, exclude_items)
                    ELSE Returned(<<>>)
        nmf_recs == IF variant \in {"nmf", "hybrid"}
                    THEN FactorPredictOn(nmf_model, user_id,
                                         n_recommendations * 2, exclude_items)
                    ELSE Returned(<<>>)
        tfidf_recs == IF variant \in {"tfidf", "hybrid"} /\ user_history # <<>>
                      THEN TfidfPredictOn(tfidf_model, user_history,
                                          n_recommendations * 2, exclude_items)
                      ELSE Returned(<<>>)
        all_recommendations ==
            Surface(Surface(Surface(<<>>, svd_recs.value, "svd"),
                            nmf_recs.value, "nmf"),
                    tfidf_recs.value, "tfidf")
        final_recommendations ==
            SortByScore(FinalRecommendations(all_recommendations, variant))
        top_recs == Take(final_recommendations, n_recommendations)
        raised == \/ svd_recs.raised
                  \/ nmf_recs.raised
                  \/ tfidf_recs.raised
                  \/ variant \notin DOMAIN variant_stats
    IN  [raised |-> raised,
         value |-> IF raised THEN <<>> ELSE top_recs,
         variant |-> variant,
         ranking |-> IF raised THEN <<>> ELSE final_recommendations,
         svd_recs |-> svd_recs, nmf_recs |-> nmf_recs, tfidf_recs |-> tfidf_recs]

(***************************************************************************)
(* The states of the three models a request may find.  Each is the result  *)
(* of fit on a new object: the identifier maps of the batch, with the      *)
(* factors the decomposition returned, or with no factors where it raised  *)
(* (rank below 1, empty vocabulary).                                       *)
(***************************************************************************)
Rows(seq) == [i \in 0..(Len(seq) - 1) |-> seq[i + 1]]

\* The fields of a factor model, constructed with n_components = k, after
\* fit(transactions) where the decomposition, if it is reached with a rank
\* of at least 1, returns the factors uf and itf.
Fitted(k, transactions, uf, itf) ==
    LET m == create_interaction_matrix(transactions)
        fails == ClampedRank(k, m.shape) < 1
    IN  [user_id_map |-> m.user_id_map,
         item_idx_map |-> m.item_idx_map,
         user_factors |-> IF fails THEN None ELSE uf,
         item_factors |-> IF fails THEN None ELSE itf]

\* The fields of the content model after fit on books with these ids, in
\* this order, where the vectorizer returns matrix, or raises (None).
TfidfFitted(book_ids, matrix) ==
    [book_id_map |-> Enumerate(book_ids),
     book_idx_map |-> Reverse(Enumerate(book_ids)),
     vectorizer |-> <<matrix # None>>,
     tfidf_matrix |-> matrix]

\* Three users and three items: rank 2.
SvdTrained ==
    Fitted(SVD_N_COMPONENTS,
           <<[user_id |-> 1, book_id |-> 1], [user_id |-> 2, book_id |-> 2],
             [user_id |-> 3, book_id |-> 3]>>,
           Rows(<<<<1, 0>>, <<0, 1>>, <<-1, 0>>>>),
           Rows(<<<<4, 3>>, <<3, 4>>, <<1, 0>>>>))

\* Users 1 and 3 only, three items: rank 1, so scores are tied.
SvdTied ==
    Fitted(SVD_N_COMPONENTS,
           <<[user_id |-> 1, book_id |-> 1], [user_id |-> 3, book_id |-> 2],
             [user_id |-> 3, book_id |-> 3]>>,
           Rows(<<<<1>>, <<-1>>>>),
           Rows(<<<<1>>, <<1>>, <<-1>>>>))

\* One user and one item: the decomposition raises.
SvdFailed ==
    Fitted(SVD_N_COMPONENTS, <<[user_id |-> 1, book_id |-> 1]>>, None, None)

\* Items 1, 2 and 4: item 4 is surfaced by this model only.
NmfTrained ==
    Fitted(NMF_N_COMPONENTS,
           <<[user_id |-> 1, book_id |-> 1], [user_id |-> 2, book_id |-> 2],
             [user_id |-> 3, book_id |-> 4]>>,
           Rows(<<<<1, 0>>, <<1, 1>>, <<0, 1>>>>),
           Rows(<<<<3, 4>>, <<4, 3>>, <<0, 1>>>>))

TfidfTrained ==
    TfidfFitted(<<1, 2, 3, 5>>,
                Rows(<<<<2, 4, 2, 1>>, <<0, 1, 0, 0>>, <<1, 1, 0, 0>>,
                       <<1, 0, 0, 0>>>>))

Deployments ==
    { [svd |-> FactorModelInit, nmf |-> FactorModelInit, tfidf |-> TfidfModelInit],
      [svd |-> SvdTrained, nmf |-> NmfTrained, tfidf |-> TfidfTrained],
      [svd |-> SvdTied, nmf |-> NmfTrained, tfidf |-> TfidfModelInit],
      [svd |-> SvdFailed, nmf |-> NmfTrained, tfidf |-> TfidfTrained] }

\* What a request may carry.
RequestSizes == {0, 1, 2}

Histories == {<<>>, <<5>>}

Exclusions == {{}, {3}}

VariantArgs == {<<>>} \cup {<<name>> : name \in VariantNames}

Algorithms == Range(variants) \cup {"popular"}

MaxServed == 1

\* hybrid_model.get_recommendations(...), as one step: the call, with the
\* impression its record_impression counts.
GetRecommendations(user_id, user_history, n_recommendations, exclude_items, variant_arg) ==
    /\ pc = "idle"
    /\ SumOver(served, Range(variants)) < MaxServed
    /\ LET r == get_recommendations(user_id, user_history, n_recommendations,
                                    exclude_items, variant_arg)
       IN  /\ result' = r
           /\ IF r.raised
              THEN UNCHANGED <<variant_stats, recorded, served>>
              ELSE /\ variant_stats' = Increment(variant_stats, r.variant, "impressions")
                   /\ recorded' = Increment(recorded, r.variant, "impressions")
                   /\ served' = [served EXCEPT ![r.variant] = @ + 1]
    /\ pc' = "done"
    /\ call' = [op |-> "get_recommendations", user_id |-> user_id,
                user_history |-> user_history,
                n_recommendations |-> n_recommendations,
                exclude_items |-> exclude_items, variant |-> variant_arg]
    /\ UNCHANGED <<kind, cfFields, interaction_matrix, n_fits, before, threadVars,
                   svd_model, nmf_model, tfidf_model,
                   str_hash, assigned, assigned_ever, restarts, workers>>

\* formatted_recs of the route for a list of (item_id, score) of one model.
Formatted(recs, name) ==
    [i \in 1..Len(recs) |->
        [book_id |-> recs[i][1], score |-> recs[i][2] * WeightScale,
         algorithm |-> name]]

\* formatted_recs for the list of (item_id, score, algorithm) of the
\* hybrid model.
FormattedHybrid(recs) ==
    [i \in 1..Len(recs) |->
        [book_id |-> recs[i][1], score |-> recs[i][2], algorithm |-> recs[i][3]]]

Response(status, formatted_recs, name, variant) ==
    [raised |-> status # 200, status |-> status, value |-> formatted_recs,
     algorithm |-> name, variant |-> variant]

\* POST /api/ml/recommendations (app.py) for a request that carries a
\* user_id; user_history is what the database holds for the user.  An
\* exception is answered with status 500, an unknown algorithm with 400.
RecommendationsRoute(user_id, user_history, n_recs, name, exclude_books) ==
    /\ pc = "idle"
    /\ SumOver(served, Range(variants)) < MaxServed
    /\ LET r == get_recommendations(user_id, user_history, n_recs,
                                    exclude_books, <<>>)
           recs == IF name = "svd"
                   THEN FactorPredictOn(svd_model, user_id, n_recs, exclude_books)
                   ELSE IF name = "nmf"
                   THEN FactorPredictOn(nmf_model, user_id, n_recs, exclude_books)
                   ELSE TfidfPredictOn(tfidf_model, user_history, n_recs,
                                       exclude_books)
           variant == assign_variant(user_id)
       IN  IF name = "hybrid"
           THEN IF r.raised
                THEN /\ result' = Response(500, <<>>, name, variant)
                     /\ UNCHANGED <<variant_stats, recorded, served>>
                ELSE /\ result' = Response(200, FormattedHybrid(r.value), name, variant)
                     /\ variant_stats' = Increment(variant_stats, r.variant, "impressions")
                     /\ recorded' = Increment(recorded, r.variant, "impressions")
                     /\ served' = [served EXCEPT ![r.variant] = @ + 1]
           ELSE IF name \in {"svd", "nmf", "tfidf"}
           THEN IF recs.raised
                THEN /\ result' = Response(500, <<>>, name, variant)
                     /\ UNCHANGED <<variant_stats, recorded, served>>
                ELSE /\ result' = Response(200, Formatted(recs.value, name), name, variant)
                     /\ served' = [served EXCEPT ![name] = @ + 1]
                     /\ UNCHANGED <<variant_stats, recorded>>
           ELSE /\ result' = Response(400, <<>>, name, variant)
                /\ UNCHANGED <<variant_stats, recorded, served>>
    /\ pc' = "done"
    /\ call' = [op |-> "recommendations", user_id |-> user_id,
                user_history |-> user_history, n_recommendations |-> n_recs,
                exclude_items |-> exclude_books, algorithm |-> name]
    /\ UNCHANGED <<kind, cfFields, interaction_matrix, n_fits, before, threadVars,
                   svd_model, nmf_model, tfidf_model,
                   str_hash, assigned, assigned_ever, restarts, workers>>

\* The length of the list explain_recommendation asks svd_model for.
EXPLAIN_DEPTH == 100

ExplainedIds == {1, 2, 3, 4}

\* explain_recommendation(item_id, user_id): the score of the item in the
\* first EXPLAIN_DEPTH recommendations of svd_model, 0 when it is not among
\* them; a reason and a confidence when that score is above 0.  No other
\* model is asked.
explain_recommendation(item_id, user_id) ==
    LET svd_recs == FactorPredictOn(svd_model, user_id, EXPLAIN_DEPTH, {})
    IN  IF svd_recs.raised THEN Error
        ELSE LET found == SelectSeq(svd_recs.value, LAMBDA rec : rec[1] = item_id)
                 svd_score == IF found = <<>> THEN 0 ELSE found[1][2]
             IN  Returned([item_id |-> item_id,
                           reasons |-> IF svd_score > 0
                                       THEN <<"collaborative_filtering">> ELSE <<>>,
                           confidence |-> IF svd_score > 0 THEN svd_score ELSE 0])

ExplainRecommendation(item_id, user_id) ==
    /\ pc = "idle"
    /\ pc' = "done"
    /\ call' = [op |-> "explain_recommendation", item_id |-> item_id,
                user_id |-> user_id]
    /\ result' = explain_recommendation(item_id, user_id)
    /\ UNCHANGED <<kind, cfFields, interaction_matrix, n_fits, before, threadVars,
                   hybridVars, abVars>>

\* The service with its models in one of the states above.
HybridInit ==
    /\ kind = "svd"
    /\ RecommenderInit
    /\ FrameworkInit
    /\ str_hash \in StrHashes
    /\ \E d \in Deployments :
           /\ svd_model = d.svd
           /\ nmf_model = d.nmf
           /\ tfidf_model = d.tfidf
    /\ served = NoneServed

HybridNext ==
    \/ \E user_id \in UserIds, user_history \in Histories,
          n_recommendations \in RequestSizes, exclude_items \in Exclusions,
          variant_arg \in VariantArgs :
           GetRecommendations(user_id, user_history, n_recommendations,
                              exclude_items, variant_arg)
    \/ \E user_id \in UserIds, user_history \in Histories,
          n_recs \in RequestSizes, name \in Algorithms,
          exclude_books \in Exclusions :
           RecommendationsRoute(user_id, user_history, n_recs, name, exclude_books)
    \/ \E item_id \in ExplainedIds, user_id \in UserIds :
           ExplainRecommendation(item_id, user_id)
    \/ Reply

SpecHybrid == HybridInit /\ [][HybridNext]_vars

(***************************************************************************)
(* Recommendation lists.                                                   *)
(***************************************************************************)
\* A call of hybrid_model.get_recommendations has returned a list.
ReturnedRecommendations ==
    /\ pc = "done"
    /\ call.op = "get_recommendations"
    /\ ~result.raised

\* The lists the three models give for the arguments of the call in
\* progress: what predict returns, asked for 2n entries.
SvdList ==
    FactorPredictOn(svd_model, call.user_id, 2 * call.n_recommendations,
                    call.exclude_items).value

NmfList ==
    FactorPredictOn(nmf_model, call.user_id, 2 * call.n_recommendations,
                    call.exclude_items).value

TfidfList ==
    TfidfPredictOn(tfidf_model, call.user_history, 2 * call.n_recommendations,
                   call.exclude_items).value

ItemsOf(list) == {list[i][1] : i \in 1..Len(list)}

\* The score list gives to item_id, 0 where the list does not hold it.
ScoreIn(list, item_id) ==
    IF item_id \in ItemsOf(list)
    THEN list[CHOOSE i \in 1..Len(list) : list[i][1] = item_id][2]
    ELSE 0

\* C11: every list served to a caller is one impression on the counter of
\* the variant that produced it: each variant's impression counter equals
\* the number of lists it has served.
C11_OneImpressionPerServedList ==
    \A variant \in Range(variants) :
        variant_stats[variant].impressions = served[variant]

\* C12: for the variant svd, nmf or tfidf every returned entry is an item
\* of that model's list, carries exactly the score the model gave it, and
\* is labelled with the model's name.
C12_SingleVariantScore ==
    (ReturnedRecommendations /\ result.variant \in {"svd", "nmf", "tfidf"}) =>
        LET own == IF result.variant = "svd" THEN SvdList
                   ELSE IF result.variant = "nmf" THEN NmfList
                   ELSE TfidfList
        IN  \A i \in 1..Len(result.value) :
                /\ result.value[i][1] \in ItemsOf(own)
                /\ result.value[i][2]
                       = ScoreIn(own, result.value[i][1]) * WeightScale
                /\ result.value[i][3] = result.variant

\* A single-algorithm call has returned two entries with different scores.
C12_Witness ==
    /\ ReturnedRecommendations
    /\ result.variant = "nmf"
    /\ Len(result.value) = 2
    /\ result.value[1][2] > result.value[2][2]
    /\ result.value[2][2] > 0

\* C13: for the variant hybrid the ranking before the slice holds every
\* item that any of the three lists holds, once, with the score
\* 0.35 * svd + 0.30 * nmf + 0.25 * content, a list that does not hold the
\* item counting 0; so scores 0.8, 0.6, 0.4 blend to 0.56.
C13_WeightedBlend ==
    (ReturnedRecommendations /\ result.variant = "hybrid") =>
        /\ ItemsOf(result.ranking)
               = ItemsOf(SvdList) \cup ItemsOf(NmfList) \cup ItemsOf(TfidfList)
        /\ Len(result.ranking) = Cardinality(ItemsOf(result.ranking))
        /\ \A i \in 1..Len(result.ranking) :
               LET item_id == result.ranking[i][1]
               IN  result.ranking[i][2]
                       = 35 * ScoreIn(SvdList, item_id)
                         + 30 * ScoreIn(NmfList, item_id)
                         + 25 * ScoreIn(TfidfList, item_id)

\* A hybrid call has ranked an item scored 0.8, 0.6 and 0.4 by the three
\* models at 0.56, and an item that only one model surfaced.
C13_Witness ==
    /\ ReturnedRecommendations
    /\ result.variant = "hybrid"
    /\ \E i \in 1..Len(result.ranking) :
           LET item_id == result.ranking[i][1]
           IN  /\ ScoreIn(SvdList, item_id) = 80
               /\ ScoreIn(NmfList, item_id) = 60
               /\ ScoreIn(TfidfList, item_id) = 40
               /\ result.ranking[i][2] = 5600
    /\ \E item_id \in ItemsOf(result.ranking) :
           /\ item_id \in ItemsOf(NmfList)
           /\ item_id \notin ItemsOf(SvdList) \cup ItemsOf(TfidfList)

\* The items in the order they are first surfaced: those of the svd list,
\* then those the nmf list adds, then those the tfidf list adds.
SurfacingOrder ==
    LET ids(list) == [i \in 1..Len(list) |-> list[i][1]]
        svd_ids == ids(result.svd_recs.value)
        nmf_ids == SelectSeq(ids(result.nmf_recs.value),
                             LAMBDA x : ~InList(x, svd_ids))
        tfidf_ids == SelectSeq(ids(result.tfidf_recs.value),
                               LAMBDA x : ~InList(x, svd_ids \o nmf_ids))
    IN  svd_ids \o nmf_ids \o tfidf_ids

PositionIn(list, x) == CHOOSE i \in 1..Len(list) : list[i] = x

\* C14: the ranking is descending by blended score, entries of equal score
\* are in the order their items were first surfaced, and the returned list
\* is the first n entries of the ranking.
C14_RankedStableTruncated ==
    ReturnedRecommendations =>
        /\ \A i, j \in 1..Len(result.ranking) :
               i < j =>
                   /\ result.ranking[i][2] >= result.ranking[j][2]
                   /\ result.ranking[i][2] = result.ranking[j][2] =>
                          PositionIn(SurfacingOrder, result.ranking[i][1])
                              < PositionIn(SurfacingOrder, result.ranking[j][1])
        /\ Len(result.value) <= call.n_recommendations
        /\ result.value
               = SubSeq(result.ranking, 1,
                        Min2(call.n_recommendations, Len(result.ranking)))

\* A call has cut a ranking that holds two entries of equal score.
C14_Witness ==
    /\ ReturnedRecommendations
    /\ Len(result.value) >= 1
    /\ Len(result.value) < Len(result.ranking)
    /\ \E i \in 1..(Len(result.ranking) - 1) :
           result.ranking[i][2] = result.ranking[i + 1][2]

\* C15: a call without a variant uses the hybrid variant: the entries are
\* labelled hybrid and the impression is counted for hybrid.
C15_NoVariantMeansHybrid ==
    (ReturnedRecommendations /\ call.variant = <<>>) =>
        /\ result.variant = "hybrid"
        /\ \A i \in 1..Len(result.value) : result.value[i][3] = "hybrid"
        /\ variant_stats["hybrid"].impressions = 1

\* C20: a call for a configured variant returns a list even where the
\* predict of one of its models raises: no exception reaches the caller.
C20_PredictFailureContained ==
    (pc = "done" /\ call.op = "get_recommendations"
         /\ result.variant \in Range(variants)) =>
        ~result.raised

(***************************************************************************)
(* Variant performance.                                                    *)
(***************************************************************************)
\* The conversion rate of a variant: conversions per impression, 0 for a
\* variant that has no impression.
ConversionRate(variant) ==
    IF variant_stats[variant].impressions = 0 THEN <<0, 1>>
    ELSE <<variant_stats[variant].conversions, variant_stats[variant].impressions>>

\* C16: get_variant_performance does not fail, and for a variant whose
\* impression counter is 0 the click-through rate and the conversion rate
\* it reports are 0, whatever clicks and conversions were recorded.
C16_ZeroImpressionsZeroRates ==
    (pc = "done" /\ call.op = "get_variant_performance") =>
        /\ ~result.raised
        /\ \A variant \in Range(variants) :
               variant_stats[variant].impressions = 0 =>
                   /\ result.value[variant].ctr[1] = 0
                   /\ result.value[variant].conversion_rate[1] = 0

\* C17: the impressions, clicks and conversions get_variant_performance
\* reports for a variant are the values of the variant's counters, and the
\* call leaves the counters as the record_* calls made them.
C17_PerformanceReportsCounters ==
    (pc = "done" /\ call.op = "get_variant_performance") =>
        /\ \A variant \in Range(variants) :
               /\ result.value[variant].impressions = variant_stats[variant].impressions
               /\ result.value[variant].clicks = variant_stats[variant].clicks
               /\ result.value[variant].conversions = variant_stats[variant].conversions
        /\ variant_stats = recorded

\* C18: once something has been recorded, get_winning_variant returns the
\* variant of the highest conversion rate, the one declared first among
\* those that share it.
C18_WinnerHasHighestRate ==
    (pc = "done" /\ call.op = "get_winning_variant" /\ variant_stats # NoStats) =>
        \E i \in 1..Len(variants) :
            /\ result.value = variants[i]
            /\ \A j \in 1..Len(variants) :
                   RateAtLeast(ConversionRate(variants[i]), ConversionRate(variants[j]))
            /\ \A j \in 1..(i - 1) :
                   ~RateAtLeast(ConversionRate(variants[j]), ConversionRate(variants[i]))

\* C19: with nothing recorded for any variant get_winning_variant returns
\* the default variant, hybrid.
C19_NoStatsDefaultsToHybrid ==
    (pc = "done" /\ call.op = "get_winning_variant" /\ variant_stats = NoStats) =>
        result.value = "hybrid"

(***************************************************************************)
(* The rank fit hands to the decomposition.                                *)
(***************************************************************************)
\* C26: the rank of the estimator fit constructs for a batch with at least
\* one user and one item is at least 1, a batch with a single user or a
\* single item included.
C26_RankAtLeastOne ==
    (pc = "done" /\ call.op = "fit" /\ DOMAIN user_id_map # {}
        /\ DOMAIN item_id_map # {})
    => model[1] >= 1

(***************************************************************************)
(* Construction of the A/B framework and of the factor models with         *)
(* arguments of the caller's choice.  The object constructed is the value  *)
(* of the call.                                                            *)
(***************************************************************************)
MaxVariants == 3

\* ABTestingFramework.__init__(variants): "variants or [...]" takes the
\* default list for None and for an empty list alike (both are <<>> here);
\* variant_stats is a dict comprehension over the list.
ABTestingFramework(variants_arg) ==
    LET self_variants == IF variants_arg = <<>> THEN variants ELSE variants_arg
    IN  Returned([variants |-> self_variants,
                  variant_stats |-> [variant \in Range(self_variants) |->
                                        [counter \in Counters |-> 0]]])

\* SVDRecommender.__init__ / NMFRecommender.__init__(n_components): the
\* argument is stored as it is.
FactorRecommender(k) ==
    Returned([n_components |-> k, model |-> None,
              user_id_map |-> EmptyMap, item_id_map |-> EmptyMap,
              user_idx_map |-> EmptyMap, item_idx_map |-> EmptyMap,
              user_factors |-> None, item_factors |-> None])

ConstructFramework(variants_arg) ==
    /\ pc = "idle"
    /\ pc' = "done"
    /\ call' = [op |-> "ABTestingFramework", variants |-> variants_arg]
    /\ result' = ABTestingFramework(variants_arg)
    /\ UNCHANGED <<kind, cfFields, interaction_matrix, n_fits, before, threadVars,
                   hybridVars, abVars>>

ConstructFactorModel(name, k) ==
    /\ pc = "idle"
    /\ pc' = "done"
    /\ call' = [op |-> name, n_components |-> k]
    /\ result' = FactorRecommender(k)
    /\ UNCHANGED <<kind, cfFields, interaction_matrix, n_fits, before, threadVars,
                   hybridVars, abVars>>

FactorModelNames == {"SVDRecommender", "NMFRecommender"}

\* The ranks a caller asks for: negative, zero and positive.
RequestedRanks == -1..2

ConstructInit ==
    /\ ModelsInit
    /\ kind = "svd"
    /\ RecommenderInit
    /\ FrameworkInit
    /\ str_hash = [user_id \in UserIds |-> 0]

ConstructNext ==
    \/ \E variants_arg \in SeqsUpTo(VariantNames, MaxVariants) :
           ConstructFramework(variants_arg)
    \/ \E name \in FactorModelNames, k \in RequestedRanks :
           ConstructFactorModel(name, k)
    \/ Reply

SpecConstruct == ConstructInit /\ [][ConstructNext]_vars

\* C21: constructing the framework with an empty variant list, or a factor
\* model with a rank that is not positive, raises an error.
C21_BadConstructionFails ==
    (pc = "done" /\ call.op \in FactorModelNames \cup {"ABTestingFramework"})
    => IF call.op = "ABTestingFramework"
       THEN call.variants = <<>> => result.raised
       ELSE call.n_components <= 0 => result.raised

(***************************************************************************)
(* TFIDFRecommender: fit, predict, get_similar_books and get_top_keywords  *)
(* (content_based.py).  The text of a book stands for the row of term      *)
(* weights the vectorizer computes for it; a term is named by its          *)
(* position in the vocabulary, counted from 0.                             *)
(***************************************************************************)
MaxBooks == 3

BookIds == {1, 2, 3}

\* The books fit is tried on.  Two of them have the same _id: train_models
\* appends its sample books to the books of the database.  The text of
\* book 3 holds no term.
Books ==
    { [_id |-> 1, text |-> <<1, 1, 0>>], [_id |-> 2, text |-> <<1, 0, 0>>],
      [_id |-> 3, text |-> <<0, 0, 0>>], [_id |-> 1, text |-> <<1, 0, 0>>] }

\* create_book_corpus: the corpus, and the two maps.
create_book_corpus(books) ==
    LET book_ids == [i \in 1..Len(books) |-> books[i]._id]
        id_map   == Enumerate(book_ids)
    IN  [corpus |-> [i \in 1..Len(books) |-> books[i].text],
         book_id_map |-> id_map,
         book_idx_map |-> Reverse(id_map)]

\* vectorizer.fit_transform(corpus): one row for every document, or an
\* exception when no document holds a term (empty vocabulary).
fit_transform(corpus) ==
    IF \A i \in 1..Len(corpus) : \A t \in 1..Len(corpus[i]) : corpus[i][t] = 0
    THEN Error
    ELSE Returned(Rows(corpus))

\* fit(books) on the content model, as one step: the maps are assigned,
\* the vectorizer is replaced by a new one, then fit_transform runs.
TfidfFit(books) ==
    /\ pc = "idle"
    /\ pc' = "done"
    /\ call' = [op |-> "tfidf.fit", books |-> books]
    /\ LET c == create_book_corpus(books)
           m == fit_transform(c.corpus)
       IN  /\ tfidf_model' =
                  [book_id_map |-> c.book_id_map,
                   book_idx_map |-> c.book_idx_map,
                   vectorizer |-> <<~m.raised>>,
                   tfidf_matrix |-> IF m.raised THEN tfidf_model.tfidf_matrix
                                    ELSE m.value]
           /\ result' = IF m.raised THEN Error ELSE Returned(None)
    /\ UNCHANGED <<kind, cfFields, interaction_matrix, n_fits, before, threadVars,
                   svd_model, nmf_model, served, abVars>>

\* predict(user_id, user_history, n_recommendations, exclude_items) on the
\* content model, as one step.
TfidfPredict(user_history, n, exclude_items) ==
    /\ pc = "idle"
    /\ pc' = "done"
    /\ call' = [op |-> "tfidf.predict", user_history |-> user_history, n |-> n,
                exclude_items |-> exclude_items]
    /\ result' = TfidfPredictOn(tfidf_model, user_history, n, exclude_items)
    /\ UNCHANGED <<kind, cfFields, interaction_matrix, n_fits, before, threadVars,
                   hybridVars, abVars>>

\* The loop of get_similar_books that keeps the row of the book itself.
RECURSIVE SimilarWithSelf(_, _, _, _)
SimilarWithSelf(similarities, idx_map, book_idx, idx) ==
    IF idx >= Len(similarities) THEN <<>>
    ELSE <<<<idx_map[idx], similarities[idx + 1]>>>>
         \o SimilarWithSelf(similarities, idx_map, book_idx, idx + 1)

\* The loop of get_similar_books: (book_id, score) for every row in index
\* order, the row of the book itself left out.
RECURSIVE Similar(_, _, _, _)
Similar(similarities, idx_map, book_idx, idx) ==
    IF idx >= Len(similarities) THEN <<>>
    ELSE LET rest == Similar(similarities, idx_map, book_idx, idx + 1)
         IN  IF idx = book_idx THEN rest
             ELSE <<<<idx_map[idx], similarities[idx + 1]>>>> \o rest

\* get_similar_books on the fields m of a TFIDFRecommender.  Error stands
\* for the exception raised by indexing None or by an index that is out of
\* range or missing from book_idx_map.
get_similar_books(m, book_id, n_similar) ==
    IF book_id \notin DOMAIN m.book_id_map THEN Returned(<<>>)
    ELSE LET book_idx == m.book_id_map[book_id]
         IN  IF m.tfidf_matrix = None THEN Error
             ELSE IF \/ book_idx \notin DOMAIN m.tfidf_matrix
                     \/ \E idx \in DOMAIN m.tfidf_matrix \ {book_idx} :
                            idx \notin DOMAIN m.book_idx_map
             THEN Error
             ELSE LET book_vector == m.tfidf_matrix[book_idx]
                      n_rows == Cardinality(DOMAIN m.tfidf_matrix)
                      similarities ==
                          [j \in 1..n_rows |->
                              cosine_similarity(book_vector, m.tfidf_matrix[j - 1])]
                  IN  Returned(Take(SortByScore(
                          Similar(similarities, m.book_idx_map, book_idx, 0)),
                          n_similar))

GetSimilarBooks(book_id, n_similar) ==
    /\ pc = "idle"
    /\ pc' = "done"
    /\ call' = [op |-> "get_similar_books", book_id |-> book_id, n |-> n_similar]
    /\ result' = get_similar_books(tfidf_model, book_id, n_similar)
    /\ UNCHANGED <<kind, cfFields, interaction_matrix, n_fits, before, threadVars,
                   hybridVars, abVars>>

\* The orders of the positions 0 .. n - 1.
PositionOrders(n) ==
    {p \in [1..n -> 0..(n - 1)] : \A i, j \in 1..n : i # j => p[i] # p[j]}

\* tfidf_scores.argsort(): the positions in ascending order of score.  The
\* default sort of numpy is not stable, so positions of equal score come in
\* any order.
argsort(scores) ==
    {p \in PositionOrders(Len(scores)) :
        \A i \in 1..(Len(scores) - 1) : scores[p[i] + 1] <= scores[p[i + 1] + 1]}

\* seq[-n:]: the last n entries, and every entry when n is 0.
LastN(seq, n) ==
    IF n = 0 THEN seq
    ELSE IF n > 0 THEN SubSeq(seq, Len(seq) - Min2(n, Len(seq)) + 1, Len(seq))
    ELSE SubSeq(seq, Min2(-n, Len(seq)) + 1, Len(seq))

\* seq[::-1]
Reversed(seq) == [i \in 1..Len(seq) |-> seq[Len(seq) + 1 - i]]

\* The outcomes of get_top_keywords on the fields m of a TFIDFRecommender,
\* one for every order argsort may give.  Error stands for the exception
\* raised by a vectorizer that is None or not fitted, by indexing None or by
\* an index that is out of range.
get_top_keywords(m, book_id, n_keywords) ==
    IF book_id \notin DOMAIN m.book_id_map THEN {Returned(<<>>)}
    ELSE LET book_idx == m.book_id_map[book_id]
         IN  IF \/ m.vectorizer # <<TRUE>>
                \/ m.tfidf_matrix = None
             THEN {Error}
             ELSE IF book_idx \notin DOMAIN m.tfidf_matrix THEN {Error}
             ELSE LET tfidf_scores == m.tfidf_matrix[book_idx]
                  IN  { Returned(
                          LET top_indices == Reversed(LastN(order, n_keywords))
                              kept == SelectSeq(top_indices,
                                          LAMBDA idx : tfidf_scores[idx + 1] > 0)
                          IN  [i \in 1..Len(kept) |->
                                  <<kept[i], tfidf_scores[kept[i] + 1]>>])
                        : order \in argsort(tfidf_scores) }

GetTopKeywords(book_id, n_keywords) ==
    /\ pc = "idle"
    /\ pc' = "done"
    /\ call' = [op |-> "get_top_keywords", book_id |-> book_id, n |-> n_keywords]
    /\ result' \in get_top_keywords(tfidf_model, book_id, n_keywords)
    /\ UNCHANGED <<kind, cfFields, interaction_matrix, n_fits, before, threadVars,
                   hybridVars, abVars>>

\* The histories, exclusions and sizes of the requests.
ContentHistories == {<<>>, <<1>>, <<2>>, <<3>>, <<1, 2>>, <<2, 2>>}

ContentExclusions == {{}, {2}}

ContentInit ==
    /\ ModelsInit
    /\ kind = "svd"
    /\ RecommenderInit
    /\ FrameworkInit
    /\ str_hash = [user_id \in UserIds |-> 0]

ContentNext ==
    \/ \E books \in SeqsUpTo(Books, MaxBooks) : TfidfFit(books)
    \/ \E user_history \in ContentHistories, n \in 0..MaxN,
          exclude_items \in ContentExclusions :
           TfidfPredict(user_history, n, exclude_items)
    \/ \E book_id \in BookIds, n_similar \in 0..MaxN :
           GetSimilarBooks(book_id, n_similar)
    \/ \E book_id \in BookIds, n_keywords \in 0..MaxN :
           GetTopKeywords(book_id, n_keywords)
    \/ Reply

SpecContent == ContentInit /\ [][ContentNext]_vars

(***************************************************************************)
(* Properties of the content model.                                        *)
(***************************************************************************)
\* The content model is trained: its last fit fitted the vectorizer.
ContentTrained == tfidf_model.vectorizer = <<TRUE>>

KnownHistory(user_history) ==
    SelectSeq(user_history, LAMBDA book_id : book_id \in DOMAIN tfidf_model.book_id_map)

\* The sum of the rows of the known books of a history; its direction is
\* that of their mean.
HistoryProfile(user_history) ==
    LET known == KnownHistory(user_history)
    IN  SumRows(tfidf_model.tfidf_matrix,
                [i \in 1..Len(known) |-> tfidf_model.book_id_map[known[i]]])

RowOf(book_id) == tfidf_model.tfidf_matrix[tfidf_model.book_id_map[book_id]]

\* C22: a list that predict of a trained content model returns for a history
\* with at least one known id has at most n entries, holds no book of the
\* history and no excluded id, and is in descending order of score, the
\* score of a book being the cosine similarity of its row to the mean of the
\* rows of the history.
C22_ContentPredictContract ==
    (/\ pc = "done" /\ call.op = "tfidf.predict"
     /\ ContentTrained
     /\ KnownHistory(call.user_history) # <<>>
     /\ ~result.raised)
    => LET recs == result.value
       IN  /\ Len(recs) <= call.n
           /\ \A i \in 1..Len(recs) :
                  /\ ~InList(recs[i][1], call.user_history)
                  /\ recs[i][1] \notin call.exclude_items
                  /\ recs[i][2] = cosine_similarity(HistoryProfile(call.user_history),
                                                    RowOf(recs[i][1]))
           /\ \A i, j \in 1..Len(recs) : i < j => recs[i][2] >= recs[j][2]

\* Two books of different score are returned for a known history, the list
\* cut to the size asked for.
C22_Witness ==
    /\ pc = "done" /\ call.op = "tfidf.predict"
    /\ ContentTrained
    /\ KnownHistory(call.user_history) # <<>>
    /\ ~result.raised
    /\ Len(result.value) = 2
    /\ call.n = 2
    /\ result.value[1][2] > result.value[2][2]

\* C23: a list that get_similar_books of a trained content model returns has
\* at most n entries and never holds the book asked about; for an id the
\* model does not know the list is empty.
C23_SimilarBooksContract ==
    (/\ pc = "done" /\ call.op = "get_similar_books"
     /\ ContentTrained)
    => /\ call.book_id \notin DOMAIN tfidf_model.book_id_map
              => result = Returned(<<>>)
       /\ ~result.raised
              => /\ Len(result.value) <= call.n
                 /\ \A i \in 1..Len(result.value) : result.value[i][1] # call.book_id

\* Of the two books similar to a known book one is returned.
C23_Witness ==
    /\ pc = "done" /\ call.op = "get_similar_books"
    /\ ContentTrained
    /\ call.book_id \in DOMAIN tfidf_model.book_id_map
    /\ Cardinality(DOMAIN tfidf_model.tfidf_matrix) = 3
    /\ ~result.raised
    /\ call.n = 1
    /\ Len(result.value) = 1

\* The terms of a row that come before term t in the order "higher weight
\* first, of equal weights the lower vocabulary position first".
RanksBefore(scores, s, t) ==
    \/ scores[s + 1] > scores[t + 1]
    \/ scores[s + 1] = scores[t + 1] /\ s < t

\* C28: a list that get_top_keywords of a trained content model returns has
\* at most n terms, all of weight above 0, and they are the n highest of the
\* book's row in descending order of weight, terms of equal weight in
\* ascending vocabulary position, in the listing and in the choice at the
\* cut-off.
C28_TopKeywordsOrdered ==
    (/\ pc = "done" /\ call.op = "get_top_keywords"
     /\ ContentTrained
     /\ call.book_id \in DOMAIN tfidf_model.book_id_map
     /\ ~result.raised)
    => LET scores == RowOf(call.book_id)
           terms  == result.value
           listed == {terms[i][1] : i \in 1..Len(terms)}
       IN  /\ Len(terms) <= call.n
           /\ \A i \in 1..Len(terms) :
                  terms[i][2] > 0 /\ terms[i][2] = scores[terms[i][1] + 1]
           /\ \A i, j \in 1..Len(terms) :
                  i < j => RanksBefore(scores, terms[i][1], terms[j][1])
           /\ \A t \in 0..(Len(scores) - 1) :
                  (scores[t + 1] > 0 /\ t \notin listed)
                  => /\ Len(terms) = call.n
                     /\ \A s \in listed : RanksBefore(scores, s, t)

\* C30: after a fit of the content model that returns, book_idx_map has an
\* entry for every row of tfidf_matrix and is the inverse of book_id_map,
\* for every list of books, lists that hold an _id twice included.
C30_IndexMapCoversRows ==
    (pc = "done" /\ call.op = "tfidf.fit" /\ ~result.raised)
    => /\ DOMAIN tfidf_model.book_idx_map = DOMAIN tfidf_model.tfidf_matrix
       /\ \A book_id \in DOMAIN tfidf_model.book_id_map :
              /\ tfidf_model.book_id_map[book_id] \in DOMAIN tfidf_model.book_idx_map
              /\ tfidf_model.book_idx_map[tfidf_model.book_id_map[book_id]] = book_id
       /\ \A idx \in DOMAIN tfidf_model.book_idx_map :
              tfidf_model.book_id_map[tfidf_model.book_idx_map[idx]] = idx

(***************************************************************************)
(* TemporalFeatureEngine (hybrid_recommender.py).  Time is counted in      *)
(* days; a weight is a float in the program and an integer in units of     *)
(* 1 / TimeScale here.                                                     *)
(***************************************************************************)
TimeScale == 1000000

\* decay_factor = 0.95, in hundredths; window_days = 90.
decay_factor == 95

window_days == 90

\* datetime.now(), and the dates of the interactions: whole months before
\* it, the day itself, and a month after it.
now == 120

Dates == {0, 30, 90, 120, 150}

\* self.decay_factor ** months, for a whole number of months of either
\* sign.
RECURSIVE Decay(_)
Decay(months) ==
    IF months = 0 THEN TimeScale
    ELSE IF months > 0 THEN (Decay(months - 1) * decay_factor) \div 100
    ELSE (Decay(months + 1) * 100) \div decay_factor

\* calculate_time_weight(interaction_date)
calculate_time_weight(interaction_date) ==
    LET days_ago == now - interaction_date
        weight   == Decay(days_ago \div 30)
    IN  IF days_ago > window_days THEN weight \div 10 ELSE weight

\* The keys of item_scores in the order they were inserted: the order in
\* which the items first appear in the transactions.
RECURSIVE InsertionOrder(_)
InsertionOrder(transactions) ==
    IF transactions = <<>> THEN <<>>
    ELSE LET item_id == Head(transactions).book_id
         IN  <<item_id>> \o SelectSeq(InsertionOrder(Tail(transactions)),
                                      LAMBDA other : other # item_id)

\* item_scores[item_id]: the sum of the weights of the item's transactions.
RECURSIVE TrendScore(_, _)
TrendScore(transactions, item_id) ==
    IF transactions = <<>> THEN 0
    ELSE (IF Head(transactions).book_id = item_id
          THEN calculate_time_weight(Head(transactions).borrowDate) ELSE 0)
         + TrendScore(Tail(transactions), item_id)

\* get_trending_items(transactions, n_items)
get_trending_items(transactions, n_items) ==
    LET keys  == InsertionOrder(transactions)
        items == [i \in 1..Len(keys) |-> <<keys[i], TrendScore(transactions, keys[i])>>]
    IN  Take(SortByScore(items), n_items)

CalculateTimeWeight(interaction_date) ==
    /\ pc = "idle"
    /\ pc' = "done"
    /\ call' = [op |-> "calculate_time_weight", interaction_date |-> interaction_date]
    /\ result' = Returned(calculate_time_weight(interaction_date))
    /\ UNCHANGED <<kind, cfFields, interaction_matrix, n_fits, before, threadVars,
                   hybridVars, abVars>>

GetTrendingItems(transactions, n_items) ==
    /\ pc = "idle"
    /\ pc' = "done"
    /\ call' = [op |-> "get_trending_items", transactions |-> transactions,
                n |-> n_items]
    /\ result' = Returned(get_trending_items(transactions, n_items))
    /\ UNCHANGED <<kind, cfFields, interaction_matrix, n_fits, before, threadVars,
                   hybridVars, abVars>>

MaxTransactions == 3

TrendingIds == {1, 2}

BorrowTransactions == [book_id : TrendingIds, borrowDate : Dates]

TemporalInit ==
    /\ ModelsInit
    /\ kind = "svd"
    /\ RecommenderInit
    /\ FrameworkInit
    /\ str_hash = [user_id \in UserIds |-> 0]

TemporalNext ==
    \/ \E interaction_date \in Dates : CalculateTimeWeight(interaction_date)
    \/ \E transactions \in SeqsUpTo(BorrowTransactions, MaxTransactions),
          n_items \in 0..MaxN :
           GetTrendingItems(transactions, n_items)
    \/ Reply

SpecTemporal == TemporalInit /\ [][TemporalNext]_vars

\* C24: the weight calculate_time_weight returns is above 0 and at most 1,
\* also for an interaction dated later than the current time.
C24_WeightInUnitInterval ==
    (pc = "done" /\ call.op = "calculate_time_weight")
    => (0 < result.value /\ result.value <= TimeScale)

\* C27: get_trending_items returns the items of the transactions with the
\* sum of their weights, in descending order of that sum, items of equal sum
\* in ascending order of item id, cut to n entries.
C27_TrendingTiesByItemId ==
    (pc = "done" /\ call.op = "get_trending_items")
    => LET trending == result.value
           items    == {call.transactions[i].book_id : i \in 1..Len(call.transactions)}
           listed   == {trending[i][1] : i \in 1..Len(trending)}
           Before(a, b) ==
               \/ TrendScore(call.transactions, a) > TrendScore(call.transactions, b)
               \/ /\ TrendScore(call.transactions, a) = TrendScore(call.transactions, b)
                  /\ a < b
       IN  /\ Len(trending) = Min2(call.n, Cardinality(items))
           /\ listed \subseteq items
           /\ \A i \in 1..Len(trending) :
                  trending[i][2] = TrendScore(call.transactions, trending[i][1])
           /\ \A i, j \in 1..Len(trending) :
                  i < j => Before(trending[i][1], trending[j][1])
           /\ \A a \in listed, b \in items \ listed : Before(a, b)

(***************************************************************************)
(* Properties of explain_recommendation.                                   *)
(***************************************************************************)
\* The score a factor model gives an item for a user, whatever the item's
\* rank: 0 when the model does not list the item for the user.
ModelScore(m, user_id, item_id) ==
    LET recs == FactorPredictOn(m, user_id, Cardinality(DOMAIN m.item_idx_map), {})
        found == IF recs.raised THEN <<>>
                 ELSE SelectSeq(recs.value, LAMBDA rec : rec[1] = item_id)
    IN  IF found = <<>> THEN 0 ELSE found[1][2]

\* C25: an explanation carries one reason for every model that gives the
\* item a score above 0, and its confidence is the mean of those scores (0
\* when there is none).  Stated here for the two factor models, svd and
\* nmf.
C25_ExplainsEveryModel ==
    (pc = "done" /\ call.op = "explain_recommendation" /\ ~result.raised)
    => LET svd_score == ModelScore(svd_model, call.user_id, call.item_id)
           nmf_score == ModelScore(nmf_model, call.user_id, call.item_id)
           positive  == (IF svd_score > 0 THEN 1 ELSE 0) + (IF nmf_score > 0 THEN 1 ELSE 0)
           total     == (IF svd_score > 0 THEN svd_score ELSE 0)
                        + (IF nmf_score > 0 THEN nmf_score ELSE 0)
       IN  /\ Len(result.value.reasons) = positive
           /\ result.value.confidence * positive = total
           /\ positive = 0 => result.value.confidence = 0

(***************************************************************************)
(* The framework's counters under calls that name a variant: record_* and  *)
(* get_recommendations, with configured and other variant names.           *)
(***************************************************************************)
VariantsInit ==
    /\ kind = "svd"
    /\ RecommenderInit
    /\ FrameworkInit
    /\ str_hash = [user_id \in UserIds |-> 0]
    /\ \E d \in Deployments :
           /\ svd_model = d.svd
           /\ nmf_model = d.nmf
           /\ tfidf_model = d.tfidf
    /\ served = NoneServed

VariantsNext ==
    \/ \E variant \in VariantNames : RecordImpression(variant)
    \/ \E variant \in VariantNames : RecordClick(variant)
    \/ \E variant \in VariantNames : RecordConversion(variant)
    \/ \E user_id \in UserIds, user_history \in Histories,
          n_recommendations \in RequestSizes, exclude_items \in Exclusions,
          variant_arg \in VariantArgs :
           GetRecommendations(user_id, user_history, n_recommendations,
                              exclude_items, variant_arg)
    \/ Reply

SpecVariants == VariantsInit /\ [][VariantsNext]_vars

RecordOps == {"record_impression", "record_click", "record_conversion"}

\* The call completed by a step names a variant that is not configured.
NamesUnconfiguredVariant(c) ==
    IF c.op \in RecordOps THEN c.variant \notin Range(variants)
    ELSE IF c.op = "get_recommendations"
    THEN c.variant # <<>> /\ c.variant[1] \notin Range(variants)
    ELSE FALSE

\* C29: the keys of variant_stats are the configured variants at all times,
\* and a record_* or get_recommendations call that names a variant which is
\* not configured raises, adds no key and leaves every counter as it was.
C29_UnknownVariantRejected ==
    /\ [](DOMAIN variant_stats = Range(variants))
    /\ [][(pc = "idle" /\ pc' = "done" /\ NamesUnconfiguredVariant(call'))
          => (result'.raised /\ variant_stats' = variant_stats)]_vars

\* A record_click that names an unconfigured variant has raised on a
\* framework that has counted a call before.
C29_Witness ==
    /\ pc = "done"
    /\ call.op = "record_click"
    /\ call.variant \notin Range(variants)
    /\ result.raised
    /\ Calls(variant_stats) > 0

====
